---- MODULE Spec2Model ----
(***************************************************************************)
(* A model of feederbot (src/main.py): the command synchronisation         *)
(* (sync_commands), the food lookup (canonicalize_food_name, find_food)    *)
(* and the per-user calorie ledger (feed, show_stats).                     *)
(*                                                                         *)
(* Strings are sequences of one-character strings, so that lower-casing,  *)
(* the regular-expression substitution, strip and split are computed and  *)
(* not assumed.                                                            *)
(***************************************************************************)
EXTENDS Integers, Sequences, FiniteSets, TLC

VARIABLES
    command_tree,   \* registered commands, as the list get_commands() returns
    client_guilds,  \* client.guilds
    misc_store,     \* Index("data/misc/"): key -> value
    user_store,     \* Index("data/users/"): user id -> record
    sync,           \* the invocations of sync_commands: position and locals
    handler,        \* the command handlers in flight: position and locals
    now,            \* the clock datetime.now reads
    pushed,         \* history: per guild, the hash last pushed successfully
    last_reconcile, \* history: the reconcile that completed last
    feedings,       \* history: the ledger updates applied, in order
    recipients,     \* history: the users a successful feeding was asked for
    catalog,        \* lookup alone: the catalog find_food runs against
    food_name,      \* lookup alone: the name given to find_food
    found           \* lookup alone: what find_food returned

vars == <<command_tree, client_guilds, misc_store, user_store, sync, handler,
          now, pushed, last_reconcile, feedings, recipients, catalog, food_name,
          found>>

syncVars == <<command_tree, client_guilds, misc_store, sync, pushed, last_reconcile>>
ledgerVars == <<user_store, handler, now, feedings, recipients>>
matchVars == <<catalog, food_name, found>>

-----------------------------------------------------------------------------
(* Bounds *)

NumGuilds == 2
NumUsers == 2
MaxFeedings == 2
MaxClock == 1
MaxQueryLen == 3
MaxCatalog == 2

Guilds == 1..NumGuilds
Users == 1..NumUsers

\* on_ready can fire again while an earlier sync_commands is still awaiting
Invocations == {"first", "again"}

\* Two command handlers can be in flight at once
Handlers == {"h1", "h2"}

\* Python's None
None == [none |-> TRUE]

\* An exception leaving find_food
IndexError == [raised |-> "IndexError"]

\* find_food has not returned yet
Pending == [pending |-> TRUE]

-----------------------------------------------------------------------------
(* Strings *)

Whitespace == {" ", "\n"}

\* str.lower on one character
LowerChar(c) ==
    CASE c = "A" -> "a"
      [] c = "B" -> "b"
      [] c = "C" -> "c"
      [] c = "F" -> "f"
      [] c = "R" -> "r"
      [] c = "T" -> "t"
      [] OTHER -> c

\* str.lower
Lower(s) == [i \in 1..Len(s) |-> LowerChar(s[i])]

\* The end of the match of \(.+\) that starts at i, or 0 when there is none:
\* the greatest j with s[j] = ")" after at least one character, none of the
\* characters in between being a newline
ParenMatchEnd(s, i) ==
    LET ends == {j \in (i + 2)..Len(s) :
                    /\ s[j] = ")"
                    /\ \A k \in (i + 1)..(j - 1) : s[k] # "\n"}
    IN  IF i <= Len(s) /\ s[i] = "(" /\ ends # {}
        THEN CHOOSE j \in ends : \A k \in ends : k <= j
        ELSE 0

\* re.sub(r"\(.+\)", "", s): scan from the left, drop each match, go on after it
RECURSIVE StripParensFrom(_, _)
StripParensFrom(s, i) ==
    IF i > Len(s) THEN <<>>
    ELSE LET j == ParenMatchEnd(s, i)
         IN  IF j > 0 THEN StripParensFrom(s, j + 1)
             ELSE <<s[i]>> \o StripParensFrom(s, i + 1)

StripParens(s) == StripParensFrom(s, 1)

\* str.strip
Strip(s) ==
    LET keep == {i \in 1..Len(s) : s[i] \notin Whitespace}
    IN  IF keep = {} THEN <<>>
        ELSE LET lo == CHOOSE i \in keep : \A k \in keep : i <= k
                 hi == CHOOSE i \in keep : \A k \in keep : k <= i
             IN  SubSeq(s, lo, hi)

\* set(str.split()): the maximal runs of non-whitespace characters
Tokens(s) ==
    LET starts == {i \in 1..Len(s) :
                      s[i] \notin Whitespace /\ (i = 1 \/ s[i - 1] \in Whitespace)}
        ends == {j \in 1..Len(s) :
                      s[j] \notin Whitespace /\ (j = Len(s) \/ s[j + 1] \in Whitespace)}
        EndOf(i) == CHOOSE j \in ends : j >= i /\ \A k \in ends : k >= i => j <= k
    IN  {SubSeq(s, i, EndOf(i)) : i \in starts}

canonicalize_food_name(s) == Strip(StripParens(Lower(s)))

RandomWord == <<"r", "a", "n", "d", "o", "m">>

-----------------------------------------------------------------------------
(* Food lookup: find_food *)

\* A catalog entry as foods.yaml gives it
FoodEntry(name, calories) == [name |-> name, calories |-> calories]

\* len(candidate & food_name)
Matching(food, query_tokens) ==
    Cardinality(Tokens(canonicalize_food_name(food.name)) \cap query_tokens)

\* FindFoodStep as it would be if a tie kept the first entry only
FindFoodStepFirstOnly(acc, food, query_tokens) ==
    LET matching == Matching(food, query_tokens)
    IN  IF matching > acc.best_match
        THEN [best_match |-> matching, result |-> <<food>>]
        ELSE acc

\* One pass of the loop body: acc holds best_match and result
FindFoodStep(acc, food, query_tokens) ==
    LET matching == Matching(food, query_tokens)
    IN  IF matching > acc.best_match
        THEN [best_match |-> matching, result |-> <<food>>]
        ELSE IF matching = acc.best_match /\ matching > 0
        THEN [best_match |-> acc.best_match, result |-> Append(acc.result, food)]
        ELSE acc

\* for food in foods: ...
RECURSIVE FindFoodLoop(_, _, _, _)
FindFoodLoop(entries, i, query_tokens, acc) ==
    IF i > Len(entries) THEN acc
    ELSE FindFoodLoop(entries, i + 1, query_tokens,
                      FindFoodStep(acc, entries[i], query_tokens))

\* random.choice(seq): any element; IndexError on an empty sequence
RandomChoice(seq) ==
    IF Len(seq) = 0 THEN {IndexError} ELSE {seq[i] : i \in 1..Len(seq)}

\* IsRandomQuery as it would be if the literal were capitalised
IsRandomQueryCapitalised(canonical) == canonical = <<"R", "a", "n", "d", "o", "m">>

\* if food_name == "random"
IsRandomQuery(canonical) == canonical = RandomWord

\* The values find_food(query) can return when the catalog is entries (None
\* when nothing matches), or IndexError when it raises
find_food(query, entries) ==
    LET canonical == canonicalize_food_name(query)
    IN  IF IsRandomQuery(canonical) THEN RandomChoice(entries)
        ELSE LET acc == FindFoodLoop(entries, 1, Tokens(canonical),
                                     [best_match |-> 0, result |-> <<>>])
             IN  IF acc.result = <<>> THEN {None} ELSE RandomChoice(acc.result)

-----------------------------------------------------------------------------
(* Command synchronisation: sync_commands *)

\* A command is named by the rank of its name in the lexicographic order:
\* "eat" < "feed" < "stats"
Eat == 1
Feed == 2
Stats == 3

\* The list get_commands() returns, in registration order (lines 148-166)
RegisteredCommands == <<Stats, Eat, Feed>>

\* The command lists of the builds that are deployed over time: this one, one
\* that registers the same commands in another order, and an earlier one
\* without /stats
CommandLists == {RegisteredCommands, <<Eat, Feed, Stats>>, <<Feed, Eat>>}

\* The orders in which the commands of a list can be registered
RegistrationOrders(commands) ==
    {l \in [1..Len(commands) -> {commands[i] : i \in 1..Len(commands)}] :
        \A i \in 1..Len(commands) :
            Cardinality({k \in 1..Len(commands) : l[k] = commands[i]})
                = Cardinality({k \in 1..Len(commands) : commands[k] = commands[i]})}

\* Every list of distinct commands, in every order
AllCommandLists ==
    UNION {RegistrationOrders(l) :
              l \in {<<>>, <<Eat>>, <<Feed>>, <<Stats>>, <<Eat, Feed>>, <<Eat, Stats>>,
                     <<Feed, Stats>>, <<Eat, Feed, Stats>>}}

\* SortByName as it would be without line 31
SortByNameSkipped(commands) == commands

\* list.sort(key=name): a stable insertion sort
RECURSIVE Insert(_, _)
Insert(sorted, c) ==
    IF sorted = <<>> THEN <<c>>
    ELSE IF c < sorted[Len(sorted)]
         THEN Append(Insert(SubSeq(sorted, 1, Len(sorted) - 1), c), sorted[Len(sorted)])
         ELSE Append(sorted, c)

RECURSIVE SortByName(_)
SortByName(commands) ==
    IF commands = <<>> THEN <<>>
    ELSE Insert(SortByName(SubSeq(commands, 1, Len(commands) - 1)),
                commands[Len(commands)])

\* sha256(json.dumps(...)).hexdigest(): the digest of a serialisation, taken
\* to be free of collisions: the serialised list read as a number
RECURSIVE Digest(_)
Digest(serialised) ==
    IF serialised = <<>> THEN 1
    ELSE Digest(SubSeq(serialised, 1, Len(serialised) - 1)) * (Stats + 1)
            + serialised[Len(serialised)]

\* Lines 30-32: the hash of the current command set
CurrentHash(commands) == [hexdigest |-> Digest(SortByName(commands))]

\* dict.get(key): None when the key is missing
DictGet(d, key) == IF key \in DOMAIN d THEN d[key] ELSE None

\* misc_store.get("synced_commands", {})
LastSynced(store) ==
    IF "synced_commands" \in DOMAIN store THEN store["synced_commands"] ELSE <<>>

\* GuildIsDirty as it would be if a missing entry counted as up to date
GuildIsDirtyKnownOnly(last_synced_commands, guild, current_commands) ==
    /\ guild \in DOMAIN last_synced_commands
    /\ last_synced_commands[guild] # current_commands

\* Line 39: last_synced_commands.get(guild.id) != current_commands
GuildIsDirty(last_synced_commands, guild, current_commands) ==
    DictGet(last_synced_commands, guild) # current_commands

\* StagedGuilds as it would be without the test of line 39
StagedGuildsAll(last_synced_commands, guilds, current_commands) == guilds

\* Lines 38-42: the guilds copy_global_to was called for
StagedGuilds(last_synced_commands, guilds, current_commands) ==
    {g \in guilds : GuildIsDirty(last_synced_commands, g, current_commands)}

\* StagedRecord as it would be if line 42 were inside the if of line 39
StagedRecordDirtyOnly(last_synced_commands, guilds, current_commands) ==
    [g \in StagedGuilds(last_synced_commands, guilds, current_commands) |->
        current_commands]

\* StagedRecord as it would be if line 35 started from the persisted record
StagedRecordKeepsOld(last_synced_commands, guilds, current_commands) ==
    [g \in DOMAIN last_synced_commands \cup guilds |->
        IF g \in guilds THEN current_commands ELSE last_synced_commands[g]]

\* Lines 35-42: synced_commands after the loop, an entry for every guild
StagedRecord(last_synced_commands, guilds, current_commands) ==
    [g \in guilds |-> current_commands]

IdleSync ==
    [pc |-> "idle", current_commands |-> None, guilds |-> {},
     last_synced_commands |-> <<>>, synced_commands |-> <<>>, staged |-> {}]

Reconcile(p, outcome) ==
    [hash |-> sync[p].current_commands, guilds |-> sync[p].guilds, outcome |-> outcome]

\* OnReady as it would be if line 47 came before line 46
OnReadyPersistFirst(p) ==
    /\ sync[p].pc = "idle"
    /\ LET current_commands == CurrentHash(command_tree)
           last_synced_commands == LastSynced(misc_store)
           staged == StagedGuilds(last_synced_commands, client_guilds, current_commands)
           synced_commands == StagedRecord(last_synced_commands, client_guilds,
                                           current_commands)
       IN  IF staged # {}
           THEN /\ sync' = [sync EXCEPT ![p] =
                        [pc |-> "pushing", current_commands |-> current_commands,
                         guilds |-> client_guilds,
                         last_synced_commands |-> last_synced_commands,
                         synced_commands |-> synced_commands,
                         staged |-> staged]]
                /\ misc_store' = [k \in DOMAIN misc_store \cup {"synced_commands"} |->
                                    IF k = "synced_commands" THEN synced_commands
                                    ELSE misc_store[k]]
                /\ UNCHANGED last_reconcile
           ELSE /\ last_reconcile' = [hash |-> current_commands, guilds |-> client_guilds,
                                      outcome |-> "uptodate"]
                /\ UNCHANGED <<sync, misc_store>>
    /\ UNCHANGED <<command_tree, client_guilds, pushed>>
    /\ UNCHANGED <<ledgerVars, matchVars>>

\* on_ready fires and sync_commands runs up to its await (lines 30-46), or to
\* its end when nothing is dirty (line 49)
OnReady(p) ==
    /\ sync[p].pc = "idle"
    /\ LET current_commands == CurrentHash(command_tree)
           last_synced_commands == LastSynced(misc_store)
           staged == StagedGuilds(last_synced_commands, client_guilds, current_commands)
           sync_required == staged # {}
       IN  IF sync_required
           THEN /\ sync' = [sync EXCEPT ![p] =
                        [pc |-> "pushing", current_commands |-> current_commands,
                         guilds |-> client_guilds,
                         last_synced_commands |-> last_synced_commands,
                         synced_commands |->
                             StagedRecord(last_synced_commands, client_guilds,
                                          current_commands),
                         staged |-> staged]]
                /\ UNCHANGED last_reconcile
           ELSE /\ last_reconcile' = [hash |-> current_commands, guilds |-> client_guilds,
                                      outcome |-> "uptodate"]
                /\ UNCHANGED sync
    /\ UNCHANGED <<command_tree, client_guilds, misc_store, pushed>>
    /\ UNCHANGED <<ledgerVars, matchVars>>

\* Line 47: misc_store["synced_commands"] = synced_commands
Persist(store, synced_commands) ==
    [k \in DOMAIN store \cup {"synced_commands"} |->
        IF k = "synced_commands" THEN synced_commands ELSE store[k]]

\* await command_tree.sync() returns (line 46), then line 47
PushSucceed(p) ==
    /\ sync[p].pc = "pushing"
    /\ misc_store' = Persist(misc_store, sync[p].synced_commands)
    /\ pushed' = [g \in Guilds |->
                    IF g \in sync[p].staged THEN sync[p].current_commands ELSE pushed[g]]
    /\ last_reconcile' = Reconcile(p, "synced")
    /\ sync' = [sync EXCEPT ![p] = IdleSync]
    /\ UNCHANGED <<command_tree, client_guilds>>
    /\ UNCHANGED <<ledgerVars, matchVars>>

\* PushFail as it would be if line 47 ran whatever the push did
PushFailPersists(p) ==
    /\ sync[p].pc = "pushing"
    /\ misc_store' = Persist(misc_store, sync[p].synced_commands)
    /\ last_reconcile' = Reconcile(p, "failed")
    /\ sync' = [sync EXCEPT ![p] = IdleSync]
    /\ UNCHANGED <<command_tree, client_guilds, pushed>>
    /\ UNCHANGED <<ledgerVars, matchVars>>

\* await command_tree.sync() raises (line 46): the exception leaves sync_commands
PushFail(p) ==
    /\ sync[p].pc = "pushing"
    /\ last_reconcile' = Reconcile(p, "failed")
    /\ sync' = [sync EXCEPT ![p] = IdleSync]
    /\ UNCHANGED <<command_tree, client_guilds, misc_store, pushed>>
    /\ UNCHANGED <<ledgerVars, matchVars>>

\* The bot is added to a guild: client.guilds grows
GuildJoin(g) ==
    /\ g \notin client_guilds
    /\ client_guilds' = client_guilds \cup {g}
    /\ UNCHANGED <<command_tree, misc_store, sync, pushed, last_reconcile>>
    /\ UNCHANGED <<ledgerVars, matchVars>>

\* The bot is removed from a guild: client.guilds shrinks
GuildRemove(g) ==
    /\ g \in client_guilds
    /\ client_guilds' = client_guilds \ {g}
    /\ UNCHANGED <<command_tree, misc_store, sync, pushed, last_reconcile>>
    /\ UNCHANGED <<ledgerVars, matchVars>>

\* A handler that is not running.  A running handler is suspended in
\* send_message, its last statement: command is the command it serves, pc
\* names the reply it sends and, after an update, feedee and food are what
\* it recorded
IdleHandler == [pc |-> "idle", command |-> "", feedee |-> 0, food |-> None]

\* The process is started again, with the commands its code now registers
\* (lines 12-19, 148-170): coroutines in flight are gone, the stores persist
Restart(commands) ==
    /\ command_tree' = commands
    /\ sync' = [p \in Invocations |-> IdleSync]
    /\ handler' = [h \in Handlers |-> IdleHandler]
    /\ UNCHANGED <<client_guilds, misc_store, pushed, last_reconcile>>
    /\ UNCHANGED <<user_store, now, feedings, recipients, matchVars>>

-----------------------------------------------------------------------------
(* The ledger: feed, show_stats *)

Toast == FoodEntry(<<"T", "o", "a", "s", "t">>, 80)

FrenchToast ==
    FoodEntry(<<"F", "r", "e", "n", "c", "h", " ", "T", "o", "a", "s", "t", " ",
                "(", "2", " ", "s", "l", "i", "c", "e", "s", ")">>, 250)

\* Line 19: the catalog, loaded once
foods == <<Toast, FrenchToast>>

\* The food names users type
Queries ==
    { <<"t", "o", "a", "s", "t">>,
      <<"R", "a", "n", "d", "o", "m">>,
      <<"x", "y", "z", "n", "o", "t", "f", "o", "o", "d">> }

\* foods.yaml sets no bound on calories: an entry below zero
Celery == FoodEntry(<<"C", "e", "l", "e", "r", "y">>, 0 - 6)

\* The catalogs the handlers are run against
LedgerCatalogs == {foods, <<Toast, FrenchToast, Celery>>}

\* Line 103 for each of these catalogs and names: find_food(name)
Lookup == [entries \in LedgerCatalogs |->
              [name \in Queries |-> find_food(name, entries)]]

\* user_store.get(id): None when there is no record
UserGet(store, id) == IF id \in DOMAIN store THEN store[id] ELSE None

\* Lines 110-114: the record of a user fed for the first time
NewUser(created) == [created |-> created, calories |-> 0, eaten |-> <<>>]

\* LoadUser as it would be if the stored record were never reused
LoadUserAlwaysNew(store, id, created) == NewUser(created)

\* Lines 108-114: the record the update starts from
LoadUser(store, id, created) ==
    IF UserGet(store, id) = None THEN NewUser(created) ELSE UserGet(store, id)

\* AddFood as it would be if line 115 assigned instead of adding
AddFoodAssigns(user, food) ==
    [user EXCEPT !.calories = food.calories, !.eaten = Append(@, food.name)]

\* AddFood as it would be without line 116
AddFoodNoHistory(user, food) == [user EXCEPT !.calories = @ + food.calories]

\* Lines 115-116
AddFood(user, food) ==
    [user EXCEPT !.calories = @ + food.calories, !.eaten = Append(@, food.name)]

\* UserPut as it would be if the store kept one record for all users
UserPutShared(store, id, user) == [k \in DOMAIN store \cup {id} |-> user]

\* Line 117: user_store[id] = user
UserPut(store, id, user) ==
    [k \in DOMAIN store \cup {id} |-> IF k = id THEN user ELSE store[k]]

\* The number of updates applied so far
RECURSIVE TotalLen(_, _)
TotalLen(log, u) == IF u = 0 THEN 0 ELSE Len(log[u]) + TotalLen(log, u - 1)

\* Scheduled as it would be if sync_commands held the event loop while it
\* waits for command_tree.sync()
ScheduledAfterSync(h) ==
    /\ handler[h].pc = "idle"
    /\ \A p \in Invocations : sync[p].pc = "idle"

\* The event loop starts a command handler whenever an interaction arrives:
\* a coroutine suspended in an await (line 46) holds nothing
Scheduled(h) == handler[h].pc = "idle"

\* feed as it would be if lines 108-114 and 117 came before line 104
feedStoresFirst(h, interaction, feeder, feedee, name) ==
    /\ Scheduled(h)
    /\ \E food \in Lookup[catalog][name] :
          IF food = IndexError
          THEN UNCHANGED <<user_store, handler, feedings>>
          ELSE IF food = None
          THEN /\ handler' = [handler EXCEPT ![h] =
                      [pc |-> "food_not_found", command |-> interaction.command,
                       feedee |-> 0, food |-> None]]
               /\ user_store' = UserPut(user_store, feedee,
                                        LoadUser(user_store, feedee, now))
               /\ UNCHANGED feedings
          ELSE /\ TotalLen(feedings, NumUsers) < MaxFeedings
               /\ user_store' = UserPut(user_store, feedee,
                                        AddFood(LoadUser(user_store, feedee, now), food))
               /\ feedings' = [feedings EXCEPT ![feedee] = Append(@, food)]
               /\ handler' = [handler EXCEPT ![h] =
                      [pc |-> "fed", command |-> interaction.command,
                       feedee |-> feedee, food |-> food]]
    /\ UNCHANGED <<now, syncVars, matchVars>>

\* feed(feeder, feedee, food_name, interaction), up to its await: the lookup,
\* then either the not-found reply (line 105) or the update (lines 108-117)
\* and the reply (line 130)
feed(h, interaction, feeder, feedee, name) ==
    /\ Scheduled(h)
    /\ \E food \in Lookup[catalog][name] :
          IF food = IndexError
          THEN UNCHANGED <<user_store, handler, feedings>>
          ELSE IF food = None
          THEN /\ handler' = [handler EXCEPT ![h] =
                      [pc |-> "food_not_found", command |-> interaction.command,
                       feedee |-> 0, food |-> None]]
               /\ UNCHANGED <<user_store, feedings>>
          ELSE /\ TotalLen(feedings, NumUsers) < MaxFeedings
               /\ user_store' = UserPut(user_store, feedee,
                                        AddFood(LoadUser(user_store, feedee, now), food))
               /\ feedings' = [feedings EXCEPT ![feedee] = Append(@, food)]
               /\ handler' = [handler EXCEPT ![h] =
                      [pc |-> "fed", command |-> interaction.command,
                       feedee |-> feedee, food |-> food]]
    /\ UNCHANGED <<now, syncVars, matchVars>>

\* The interaction a command handler is given: the command and who issued it
Interaction(command, invoker) == [command |-> command, user |-> invoker]

\* Line 158: /eat
eat_command(h, interaction, name) ==
    feed(h, interaction, interaction.user, interaction.user, name)

\* Line 166: /feed user food
feed_command(h, interaction, user, name) ==
    feed(h, interaction, interaction.user, interaction.user, name)

\* The user a command asked to be fed is noted when the food was found
AskedFor(h, user) ==
    recipients' = IF handler'[h].pc = "fed" THEN recipients \cup {user} ELSE recipients

\* show_stats(user, interaction), up to its await (line 136 or 145)
show_stats(h, interaction, user) ==
    /\ Scheduled(h)
    /\ handler' = [handler EXCEPT ![h] =
            [pc |-> IF UserGet(user_store, user) = None
                    THEN "user_not_found" ELSE "stats",
             command |-> interaction.command, feedee |-> 0, food |-> None]]
    /\ UNCHANGED <<user_store, now, feedings, recipients, syncVars, matchVars>>

\* The user a /stats command reports on (line 151: user or interaction.user)
Requested(interaction, user) == IF user = 0 THEN interaction.user ELSE user

\* Line 151: /stats [user]; user is 0 when the option is left out
stats_command(h, interaction, user) ==
    show_stats(h, interaction, Requested(interaction, user))

\* send_message returns and the handler ends
Reply(h) ==
    /\ handler[h].pc # "idle"
    /\ handler' = [handler EXCEPT ![h] = IdleHandler]
    /\ UNCHANGED <<user_store, now, feedings, recipients, syncVars, matchVars>>

\* Time passes
Tick ==
    /\ now < MaxClock
    /\ now' = now + 1
    /\ UNCHANGED <<user_store, handler, feedings, recipients, syncVars, matchVars>>

-----------------------------------------------------------------------------
(* Specifications *)

InitProgram ==
    /\ command_tree = RegisteredCommands
    /\ client_guilds = {}
    /\ misc_store = <<>>
    /\ user_store = <<>>
    /\ sync = [p \in Invocations |-> IdleSync]
    /\ handler = [h \in Handlers |-> IdleHandler]
    /\ now = 0
    /\ pushed = [g \in Guilds |-> None]
    /\ last_reconcile = None
    /\ feedings = [u \in Users |-> <<>>]
    /\ recipients = {}

Init ==
    /\ InitProgram
    /\ catalog = foods
    /\ food_name = <<>>
    /\ found = Pending

\* The characters the names given to find_food are made of
Alphabet == {"a", "B", " ", "(", ")"}

RECURSIVE StringsUpTo(_)
StringsUpTo(n) ==
    IF n = 0 THEN {<<>>}
    ELSE LET shorter == StringsUpTo(n - 1)
         IN  shorter \cup {Append(str, c) : <<str, c>> \in shorter \X Alphabet}

\* Longer names given to find_food
NamedQueries ==
    { <<"r", "a", "n", "d", "o", "m", " ", "(", "a", ")">>,
      <<" ", "r", "a", "n", "d", "o", "m", "\n">>,
      <<"r", "a", "n", "d", "o", "m", " ", "a">>,
      <<"F", "r", "e", "n", "c", "h", " ", "t", "o", "a", "s", "t">>,
      <<"a", " ", "b", " ", "a">>,
      <<"a", " ", "(", "a", ")", " ", "B", " ", "(", "a", ")">> }

MatchQueries == StringsUpTo(MaxQueryLen) \cup Queries \cup NamedQueries

\* The entries the catalogs are made of
FoodPool ==
    { FoodEntry(<<"a">>, 1),
      FoodEntry(<<"B", " ", "a">>, 2),
      FoodEntry(<<"b", " ", "(", "a", ")">>, 3) }

RECURSIVE CatalogsUpTo(_)
CatalogsUpTo(n) ==
    IF n = 0 THEN {<<>>}
    ELSE LET shorter == CatalogsUpTo(n - 1)
         IN  shorter \cup {Append(c, f) : <<c, f>> \in shorter \X FoodPool}

RandomSalad == FoodEntry(<<"R", "a", "n", "d", "o", "m", " ", "a">>, 7)

Catalogs ==
    CatalogsUpTo(MaxCatalog) \cup {foods, <<RandomSalad, Toast>>, <<Toast, RandomSalad>>}

\* find_food is given any of the names over any of the catalogs
InitMatch ==
    /\ InitProgram
    /\ catalog \in Catalogs
    /\ food_name \in MatchQueries
    /\ found = Pending

\* find_food(food_name) returns or raises
Match ==
    /\ found = Pending
    /\ found' \in find_food(food_name, catalog)
    /\ UNCHANGED <<catalog, food_name, syncVars, ledgerVars>>

NextSync ==
    \/ OnReady("first")
    \/ PushSucceed("first")
    \/ PushFail("first")
    \/ \E g \in Guilds : GuildJoin(g)
    \/ \E g \in Guilds : GuildRemove(g)
    \/ \E commands \in CommandLists : Restart(commands)

NextLedger ==
    \/ \E h \in Handlers, invoker \in Users, name \in Queries :
          /\ eat_command(h, Interaction("eat", invoker), name)
          /\ UNCHANGED recipients
    \/ \E h \in Handlers, invoker \in Users, user \in Users, name \in Queries :
          /\ feed_command(h, Interaction("feed", invoker), user, name)
          /\ UNCHANGED recipients
    \/ \E h \in Handlers, invoker \in Users, user \in Users \cup {0} :
          stats_command(h, Interaction("stats", invoker), user)
    \/ \E h \in Handlers : Reply(h)
    \/ Tick
    \/ Restart(command_tree)

\* The command synchronisation alone, one sync_commands at a time
SpecSync == Init /\ [][NextSync]_vars

\* The build registers any commands in any order
InitHash ==
    /\ InitProgram
    /\ command_tree \in AllCommandLists
    /\ catalog = foods
    /\ food_name = <<>>
    /\ found = Pending

\* Reconciles of builds that differ only in the order of registration
NextHash ==
    \/ OnReady("first")
    \/ PushSucceed("first")
    \/ PushFail("first")
    \/ \E g \in Guilds : GuildJoin(g)
    \/ \E g \in Guilds : GuildRemove(g)
    \/ \E commands \in RegistrationOrders(command_tree) : Restart(commands)

\* The hash over every command list and every order of it
SpecHash == InitHash /\ [][NextHash]_vars

\* The ledger alone
SpecLedger == Init /\ [][NextLedger]_vars

\* The handlers, with the user each successful feeding was asked for noted
NextStats ==
    \/ \E h \in Handlers, invoker \in Users, name \in Queries :
          /\ eat_command(h, Interaction("eat", invoker), name)
          /\ AskedFor(h, invoker)
    \/ \E h \in Handlers, invoker \in Users, user \in Users, name \in Queries :
          /\ feed_command(h, Interaction("feed", invoker), user, name)
          /\ AskedFor(h, user)
    \/ \E h \in Handlers, invoker \in Users, user \in Users \cup {0} :
          stats_command(h, Interaction("stats", invoker), user)
    \/ \E h \in Handlers : Reply(h)
    \/ Tick
    \/ Restart(command_tree)

\* The ledger alone, as the stats command sees it
SpecStats == Init /\ [][NextStats]_vars

\* The ledger is run against any of its catalogs
InitDiet ==
    /\ InitProgram
    /\ catalog \in LedgerCatalogs
    /\ food_name = <<>>
    /\ found = Pending

\* The process starts on the store an earlier build left: nothing, or that
\* build's commands pushed to every guild and recorded
InitReentrant ==
    /\ command_tree = RegisteredCommands
    /\ client_guilds = {}
    /\ \E synced \in {{}, Guilds} :
          /\ misc_store = IF synced = {} THEN <<>>
                          ELSE [k \in {"synced_commands"} |->
                                   [g \in synced |-> CurrentHash(<<Feed, Eat>>)]]
          /\ pushed = [g \in Guilds |->
                          IF g \in synced THEN CurrentHash(<<Feed, Eat>>) ELSE None]
    /\ user_store = <<>>
    /\ sync = [p \in Invocations |-> IdleSync]
    /\ handler = [h \in Handlers |-> IdleHandler]
    /\ now = 0
    /\ last_reconcile = None
    /\ feedings = [u \in Users |-> <<>>]
    /\ recipients = {}
    /\ catalog = foods
    /\ food_name = <<>>
    /\ found = Pending

\* on_ready fires again while sync_commands is awaiting: two invocations
NextReentrant ==
    \/ \E p \in Invocations : OnReady(p)
    \/ \E p \in Invocations : PushSucceed(p)
    \/ \E p \in Invocations : PushFail(p)
    \/ \E g \in Guilds : GuildJoin(g)
    \/ \E g \in Guilds : GuildRemove(g)
    \/ Restart(command_tree)

\* The command synchronisation alone, with on_ready firing again
SpecReentrant == InitReentrant /\ [][NextReentrant]_vars

\* The bot starts as a member of its guilds
InitStartup ==
    /\ command_tree = RegisteredCommands
    /\ client_guilds = Guilds
    /\ misc_store = <<>>
    /\ user_store = <<>>
    /\ sync = [p \in Invocations |-> IdleSync]
    /\ handler = [h \in Handlers |-> IdleHandler]
    /\ now = 0
    /\ pushed = [g \in Guilds |-> None]
    /\ last_reconcile = None
    /\ feedings = [u \in Users |-> <<>>]
    /\ recipients = {}
    /\ catalog = foods
    /\ food_name = <<>>
    /\ found = Pending

\* Reconciles at start-up while commands are served
NextStartup ==
    \/ OnReady("first")
    \/ PushSucceed("first")
    \/ PushFail("first")
    \/ \E h \in Handlers, invoker \in Users, name \in Queries :
          /\ eat_command(h, Interaction("eat", invoker), name)
          /\ UNCHANGED recipients
    \/ \E h \in Handlers, invoker \in Users, user \in Users, name \in Queries :
          /\ feed_command(h, Interaction("feed", invoker), user, name)
          /\ UNCHANGED recipients
    \/ \E h \in Handlers, invoker \in Users, user \in Users \cup {0} :
          stats_command(h, Interaction("stats", invoker), user)
    \/ \E h \in Handlers : Reply(h)

\* The command synchronisation and the ledger together
SpecStartup == InitStartup /\ [][NextStartup]_vars

\* The ledger alone, over a catalog that may hold an entry below zero
SpecDiet == InitDiet /\ [][NextLedger]_vars

NextMatch == Match

\* The lookup alone
SpecMatch == InitMatch /\ [][NextMatch]_vars

-----------------------------------------------------------------------------
(* Properties of the command synchronisation *)

Record == LastSynced(misc_store)

\* C1: a push that fails leaves the persisted record as it was, and the
\* guilds a reconcile of the same commands and guilds would then stage are
\* the ones the failed one staged, at least one, so the push is attempted
\* again; the record changes only in the step in which a push returns
\* successfully.
C1_PushFailureKeepsRecord ==
    [][ /\ PushFail("first") =>
              /\ misc_store' = misc_store
              /\ sync["first"].staged # {}
              /\ StagedGuilds(LastSynced(misc_store'), sync["first"].guilds,
                              sync["first"].current_commands) = sync["first"].staged
        /\ misc_store' # misc_store => PushSucceed("first") ]_vars

\* C1 witness: after a failed push, the reconcile of the same commands and
\* guilds is pushing again
C1_Witness ==
    /\ last_reconcile # None
    /\ last_reconcile.outcome = "failed"
    /\ sync["first"].pc = "pushing"
    /\ sync["first"].current_commands = last_reconcile.hash
    /\ sync["first"].guilds = last_reconcile.guilds
    /\ Record # <<>>

\* C2: a reconcile that follows one that pushed successfully, with the same
\* commands and guilds, pushes nothing and leaves the record alone; and from
\* an empty record with guilds present the first reconcile does push, so two
\* reconciles in a row push once.
C2_SyncIdempotence ==
    [][ /\ ( /\ last_reconcile # None
             /\ last_reconcile.outcome = "synced"
             /\ last_reconcile.hash = CurrentHash(command_tree)
             /\ last_reconcile.guilds = client_guilds
             /\ OnReady("first") ) =>
              /\ sync'["first"].pc = "idle"
              /\ misc_store' = misc_store
              /\ pushed' = pushed
              /\ last_reconcile'.outcome = "uptodate"
        /\ ( /\ Record = <<>>
             /\ client_guilds # {}
             /\ OnReady("first") ) =>
              /\ sync'["first"].pc = "pushing"
              /\ sync'["first"].staged = client_guilds ]_vars

\* C2 witness: a reconcile found everything up to date, for guilds of which
\* one was clean and one dirty when the commands were pushed
C2_Witness ==
    /\ last_reconcile # None
    /\ last_reconcile.outcome = "uptodate"
    /\ last_reconcile.guilds = Guilds
    /\ Cardinality(Guilds) > 1
    /\ \A g \in Guilds : pushed[g] = last_reconcile.hash
    /\ sync["first"].pc = "idle"

\* C3: when a known guild has no entry in the persisted record, the reconcile
\* pushes and that guild is among those staged, whatever is recorded for the
\* other guilds.
C3_NewTargetCoverage ==
    [][ \A g \in Guilds :
          ( /\ g \in client_guilds
            /\ g \notin DOMAIN Record
            /\ OnReady("first") ) =>
              /\ sync'["first"].pc = "pushing"
              /\ g \in sync'["first"].staged ]_vars

\* C3 witness: a push is in flight that stages a guild without an entry
\* while another guild already has the current hash recorded
C3_Witness ==
    /\ sync["first"].pc = "pushing"
    /\ \E g \in sync["first"].staged, other \in sync["first"].guilds :
          /\ g \notin DOMAIN sync["first"].last_synced_commands
          /\ other \in DOMAIN sync["first"].last_synced_commands
          /\ sync["first"].last_synced_commands[other] = sync["first"].current_commands
          /\ other \notin sync["first"].staged

\* C4: every entry of the persisted record is the hash of the command set
\* last pushed successfully to that guild.
C4_RecordIsLastPushed ==
    \A g \in DOMAIN Record : Record[g] = pushed[g]

\* C4 witness: the record holds the hash of an earlier command set for a
\* guild, after the push of the current one failed
C4_Witness ==
    /\ last_reconcile # None
    /\ last_reconcile.outcome = "failed"
    /\ \E g \in DOMAIN Record \cap last_reconcile.guilds :
          /\ Record[g] # last_reconcile.hash
          /\ Record[g] = pushed[g]
    /\ \E g \in Guilds \ DOMAIN Record : pushed[g] # None

\* C12: the hash depends on the command set only: every order of the
\* registered commands gives the hash of the current order, so a build that
\* registers them in another order computes the hash already pushed.
C12_HashStability ==
    \A l \in RegistrationOrders(command_tree) :
        /\ CurrentHash(l) = CurrentHash(command_tree)
        /\ \A g \in DOMAIN Record : Record[g] = CurrentHash(l)
        /\ sync["first"].pc = "pushing" => sync["first"].current_commands = CurrentHash(l)

\* C12 witness: three commands registered out of order were pushed, and a
\* build registering them in yet another order found them up to date
C12_Witness ==
    /\ Len(command_tree) = 3
    /\ command_tree # SortByName(command_tree)
    /\ command_tree # RegisteredCommands
    /\ last_reconcile # None
    /\ last_reconcile.outcome = "uptodate"
    /\ last_reconcile.guilds # {}
    /\ \A g \in last_reconcile.guilds : pushed[g] = CurrentHash(RegisteredCommands)

\* The known guilds whose persisted hash is missing or is not the current one
DirtyGuilds ==
    {g \in client_guilds :
        g \notin DOMAIN Record \/ Record[g] # CurrentHash(command_tree)}

\* C14: a reconcile pushes when and only when some known guild is dirty, the
\* guilds it stages are exactly the dirty ones, so none that holds the
\* current hash; the push is one call: it ends the reconcile, and what was
\* pushed changes only when it returns, for the staged guilds and no other.
C14_SinglePushOfDirtySet ==
    [][ /\ OnReady("first") =>
              /\ sync'["first"].pc = "pushing" <=> DirtyGuilds # {}
              /\ sync'["first"].pc = "pushing" =>
                    /\ sync'["first"].staged = DirtyGuilds
                    /\ \A g \in sync'["first"].staged :
                          DictGet(Record, g) # sync'["first"].current_commands
              /\ pushed' = pushed
        /\ (sync["first"].pc = "pushing" /\ sync'["first"] # sync["first"]) =>
              sync'["first"].pc = "idle"
        /\ pushed' # pushed =>
              /\ PushSucceed("first")
              /\ \A g \in Guilds :
                    pushed'[g] # pushed[g] => g \in sync["first"].staged ]_vars

\* C14 witness: a push is in flight for guilds whose recorded hash is that
\* of other commands, pushed earlier
C14_Witness ==
    /\ sync["first"].pc = "pushing"
    /\ Cardinality(sync["first"].staged) > 1
    /\ \A g \in sync["first"].staged :
          /\ g \in DOMAIN sync["first"].last_synced_commands
          /\ pushed[g] = sync["first"].last_synced_commands[g]
          /\ pushed[g] # sync["first"].current_commands

\* C19: the record a reconcile persists has an entry for exactly the guilds
\* the reconcile went through, each the current hash, so entries of guilds
\* that left are dropped; a reconcile that finds nothing dirty leaves the
\* record, entries of departed guilds included, as it is; an entry goes away
\* only when a reconcile that went through the guilds without that guild
\* persists, and a guild is pushed the hash it was already pushed only when
\* its entry is gone.
C19_PersistedRecordCoversKnownGuilds ==
    [][ /\ PushSucceed("first") =>
              /\ DOMAIN Record' = sync["first"].guilds
              /\ \A g \in DOMAIN Record' : Record'[g] = sync["first"].current_commands
        /\ (OnReady("first") /\ DirtyGuilds = {}) =>
              /\ misc_store' = misc_store
              /\ sync'["first"].pc = "idle"
        /\ \A g \in Guilds :
              /\ (g \in DOMAIN Record /\ g \notin DOMAIN Record') =>
                    /\ PushSucceed("first")
                    /\ g \notin sync["first"].guilds
              /\ ( /\ OnReady("first")
                   /\ g \in sync'["first"].staged
                   /\ pushed[g] = CurrentHash(command_tree) ) =>
                    g \notin DOMAIN Record ]_vars

\* C19 witness: a guild that left and came back is pushed the hash it was
\* pushed before, its entry having been dropped, while the last reconcile
\* before it had found nothing dirty with entries of departed guilds recorded
C19_Witness ==
    /\ sync["first"].pc = "pushing"
    /\ \E g \in sync["first"].staged :
          /\ pushed[g] = sync["first"].current_commands
          /\ g \notin DOMAIN sync["first"].last_synced_commands
    /\ sync["first"].last_synced_commands # <<>>
    /\ last_reconcile # None
    /\ last_reconcile.outcome = "uptodate"
    /\ DOMAIN sync["first"].last_synced_commands \ last_reconcile.guilds # {}

\* C20: with two sync_commands interleaved in any way, the record never
\* holds the current hash for a guild unless a push staged with that guild
\* has returned successfully for that hash; and every write of the record is
\* the step in which some invocation's push returns successfully.
C20_RecordedOnlyAfterPush ==
    /\ [](\A g \in DOMAIN Record :
             Record[g] = CurrentHash(command_tree) =>
                 pushed[g] = CurrentHash(command_tree))
    /\ [][ misc_store' # misc_store =>
              \E p \in Invocations :
                  /\ sync[p].pc = "pushing"
                  /\ sync'[p].pc = "idle"
                  /\ Record' = sync[p].synced_commands
                  /\ \A g \in sync[p].staged : pushed'[g] = sync[p].current_commands ]_vars

\* C20 witness: both invocations were awaiting their push with different
\* guilds staged; the push of one has failed and the other is still in
\* flight, after a push of it had returned
C20_Witness ==
    /\ sync["first"].pc = "pushing"
    /\ sync["again"].pc = "idle"
    /\ last_reconcile # None
    /\ last_reconcile.outcome = "failed"
    /\ last_reconcile.guilds # sync["first"].guilds
    /\ last_reconcile.hash = sync["first"].current_commands
    /\ sync["first"].staged \ DOMAIN Record # {}
    /\ \E g \in sync["first"].staged :
          /\ g \in DOMAIN sync["first"].last_synced_commands
          /\ g \in DOMAIN Record
          /\ Record[g] = sync["first"].current_commands

-----------------------------------------------------------------------------
(* Properties of the ledger *)

CatalogEntries == {foods[i] : i \in 1..Len(foods)}

\* The calorie value the catalog gives for a food name
CaloriesOf(name) == (CHOOSE f \in CatalogEntries : f.name = name).calories

\* The sum of the catalog's calorie values for a sequence of food names
RECURSIVE SumOfNames(_)
SumOfNames(names) ==
    IF names = <<>> THEN 0
    ELSE SumOfNames(SubSeq(names, 1, Len(names) - 1)) + CaloriesOf(names[Len(names)])

\* The sum of the calorie values of a sequence of entries
RECURSIVE SumOfEntries(_)
SumOfEntries(entries) ==
    IF entries = <<>> THEN 0
    ELSE SumOfEntries(SubSeq(entries, 1, Len(entries) - 1))
            + entries[Len(entries)].calories

\* C5: for every user with a record, calories is the sum of the calorie
\* values of the catalog entries named in eaten.
C5_CaloriesMatchHistory ==
    \A u \in DOMAIN user_store :
        /\ \A i \in 1..Len(user_store[u].eaten) :
              \E f \in CatalogEntries : f.name = user_store[u].eaten[i]
        /\ user_store[u].calories = SumOfNames(user_store[u].eaten)

\* C5 witness: a record with two different foods in its history
C5_Witness ==
    \E u \in DOMAIN user_store :
        /\ Len(user_store[u].eaten) = 2
        /\ user_store[u].eaten[1] # user_store[u].eaten[2]

\* C6: whatever the interleaving of the handlers, the record of a user holds
\* every update a handler applied for that user exactly once: eaten lists the
\* names in the order applied and calories is the sum of their values, also
\* while two requests for the same user are in flight.
C6_NoLostUpdate ==
    \A u \in Users :
        IF feedings[u] = <<>> THEN u \notin DOMAIN user_store
        ELSE /\ u \in DOMAIN user_store
             /\ user_store[u].eaten = [i \in 1..Len(feedings[u]) |-> feedings[u][i].name]
             /\ user_store[u].calories = SumOfEntries(feedings[u])

\* C6 witness: two handlers in flight at once have both fed the same user,
\* whose total is the sum of the two
C6_Witness ==
    /\ handler["h1"].pc = "fed"
    /\ handler["h2"].pc = "fed"
    /\ handler["h1"].feedee = handler["h2"].feedee
    /\ handler["h1"].food # handler["h2"].food
    /\ user_store[handler["h1"].feedee].calories =
          handler["h1"].food.calories + handler["h2"].food.calories

\* C7: when /feed names another user as recipient and the food is found, the
\* update is applied to the recipient's record and the invoker's record is
\* unchanged.  The code does not do this.
C7_CreditGoesToRecipient ==
    [][ \A h \in Handlers, invoker \in Users, user \in Users, name \in Queries :
          ( /\ user # invoker
            /\ feed_command(h, Interaction("feed", invoker), user, name)
            /\ handler'[h].pc = "fed" ) =>
              /\ user \in DOMAIN user_store'
              /\ user_store'[user] =
                    AddFood(LoadUser(user_store, user, now), handler'[h].food)
              /\ UserGet(user_store', invoker) = UserGet(user_store, invoker) ]_vars

\* C10: a record appears with the first feeding, as a new record to which
\* that feeding was applied; afterwards it is never removed, created never
\* changes, and it changes only by one name appended to eaten and that
\* entry's calories added.
C10_RecordEvolution ==
    [][ \A u \in Users :
          IF u \in DOMAIN user_store
          THEN /\ u \in DOMAIN user_store'
               /\ user_store'[u].created = user_store[u].created
               /\ \/ user_store'[u] = user_store[u]
                  \/ \E f \in CatalogEntries :
                        /\ user_store'[u].eaten = Append(user_store[u].eaten, f.name)
                        /\ user_store'[u].calories = user_store[u].calories + f.calories
          ELSE \/ u \notin DOMAIN user_store'
               \/ \E f \in CatalogEntries :
                     user_store'[u] =
                        [created |-> now, calories |-> f.calories, eaten |-> <<f.name>>]
      ]_vars

\* C10 witness: Toast (80) then French Toast (250) fed to a user at a later
\* time than the first feeding
C10_Witness ==
    \E u \in DOMAIN user_store :
        /\ user_store[u].eaten = <<Toast.name, FrenchToast.name>>
        /\ user_store[u].calories = 330
        /\ user_store[u].created < now

\* C11 as stated: for every user, calories is never below 0 and never
\* decreases from one state to the next, whatever the catalog.
C11_CaloriesNeverDecrease ==
    [][ \A u \in DOMAIN user_store' :
          /\ user_store'[u].calories >= 0
          /\ u \in DOMAIN user_store =>
                user_store'[u].calories >= user_store[u].calories ]_vars

\* C11 amended: when no entry of the catalog has calories below 0, for
\* every user calories is never below 0 and never decreases from one state
\* to the next.
C11_CaloriesNeverDecreaseIfNonNegative ==
    [][ (\A i \in 1..Len(catalog) : catalog[i].calories >= 0) =>
          \A u \in DOMAIN user_store' :
              /\ user_store'[u].calories >= 0
              /\ u \in DOMAIN user_store =>
                    user_store'[u].calories >= user_store[u].calories ]_vars

\* C11 witness: over a catalog without entries below 0, a user was fed
\* twice and the total grew each time
C11_Witness ==
    /\ \A i \in 1..Len(catalog) : catalog[i].calories >= 0
    /\ \E u \in DOMAIN user_store :
          /\ Len(feedings[u]) = 2
          /\ user_store[u].calories > feedings[u][1].calories
          /\ feedings[u][1].calories > 0

\* C13: a stats request never changes the user store or the sync record, and
\* it reports "not found" exactly when the requested user has no record, which
\* is exactly when no successful feeding was ever asked for that user.  The
\* code does not do this.
C13_StatsIsPureRead ==
    [][ \A h \in Handlers, invoker \in Users, user \in Users \cup {0} :
          stats_command(h, Interaction("stats", invoker), user) =>
              LET requested == Requested(Interaction("stats", invoker), user)
              IN  /\ user_store' = user_store
                  /\ misc_store' = misc_store
                  /\ handler'[h].pc = "user_not_found" <=>
                        requested \notin DOMAIN user_store
                  /\ requested \notin DOMAIN user_store <=>
                        requested \notin recipients ]_vars

\* The users whose record, or whose having one, differs between two stores
ChangedUsers(before, after) ==
    {u \in Users : UserGet(after, u) # UserGet(before, u)}

\* C15: a feeding whose food name matches nothing changes nothing in the
\* user store: no record appears and no record changes, the handler only
\* replies that the food was not found; the store changes only in a step in
\* which a handler found an entry of the catalog, by that entry.
C15_NotFoundLeavesStore ==
    [][ /\ \A h \in Handlers :
              (handler[h].pc = "idle" /\ handler'[h].pc = "food_not_found") =>
                  /\ user_store' = user_store
                  /\ feedings' = feedings
        /\ user_store' # user_store =>
              \E h \in Handlers :
                  /\ handler[h].pc = "idle"
                  /\ handler'[h].pc = "fed"
                  /\ handler'[h].food \in {catalog[i] : i \in 1..Len(catalog)} ]_vars

\* C15 witness: a handler replies "not found" to a user who has no record
\* while another user has one
C15_Witness ==
    \E h \in Handlers :
        /\ handler[h].pc = "food_not_found"
        /\ handler[h].command = "feed"
        /\ user_store # <<>>
        /\ DOMAIN user_store # Users

\* C16: a feeding changes the record of at most one user, the one it
\* updates, and leaves the others' records and the persisted sync record as
\* they were.
C16_FeedingTouchesOneRecord ==
    [][ \A h \in Handlers :
          (handler[h].pc = "idle" /\ handler'[h].pc = "fed") =>
              /\ ChangedUsers(user_store, user_store') = {handler'[h].feedee}
              /\ \A u \in Users \ {handler'[h].feedee} :
                    UserGet(user_store', u) = UserGet(user_store, u)
              /\ misc_store' = misc_store ]_vars

\* C16 witness: two handlers in flight have fed different users, each
\* record holding its own feeding only
C16_Witness ==
    /\ handler["h1"].pc = "fed"
    /\ handler["h2"].pc = "fed"
    /\ handler["h1"].feedee # handler["h2"].feedee
    /\ \A h \in Handlers :
          user_store[handler[h].feedee].eaten = <<handler[h].food.name>>

-----------------------------------------------------------------------------
(* Properties of the command synchronisation and the ledger together *)

\* C17: while the push of a reconcile is in flight, every command can be
\* served by a free handler: /stats and /eat are enabled (a feeding as long
\* as the bound on the number of updates allows), a feeding applies its
\* update in that step with the push still in flight, and the step in which
\* the push returns or fails changes nothing of the ledger.
C17_FeedingNotBlockedByPush ==
    /\ [](sync["first"].pc = "pushing" =>
             \A h \in Handlers :
                 handler[h].pc = "idle" =>
                     /\ \A invoker \in Users, user \in Users \cup {0} :
                           ENABLED stats_command(h, Interaction("stats", invoker), user)
                     /\ \A invoker \in Users, name \in Queries :
                           TotalLen(feedings, NumUsers) < MaxFeedings =>
                               ENABLED eat_command(h, Interaction("eat", invoker), name))
    /\ [][ /\ \A h \in Handlers :
                ( /\ sync["first"].pc = "pushing"
                  /\ handler[h].pc = "idle"
                  /\ handler'[h].pc = "fed" ) =>
                    /\ sync' = sync
                    /\ user_store'[handler'[h].feedee] =
                          AddFood(LoadUser(user_store, handler'[h].feedee, now),
                                  handler'[h].food)
           /\ (PushSucceed("first") \/ PushFail("first")) =>
                   /\ user_store' = user_store
                   /\ handler' = handler
                   /\ feedings' = feedings ]_vars

\* C17 witness: with the push in flight, one handler has fed a user and
\* awaits its reply and the other is answering /stats for that user
C17_Witness ==
    /\ sync["first"].pc = "pushing"
    /\ handler["h1"].pc = "fed"
    /\ handler["h2"].pc = "stats"
    /\ user_store[handler["h1"].feedee].eaten = <<handler["h1"].food.name>>

-----------------------------------------------------------------------------
(* Properties of the lookup *)

\* The catalog's entries and the tokens of the name looked up
Offered == {catalog[i] : i \in 1..Len(catalog)}
Asked == Tokens(canonicalize_food_name(food_name))

\* The number of tokens an entry's canonical name shares with the name asked
Overlap(f) == Cardinality(Tokens(canonicalize_food_name(f.name)) \cap Asked)

\* The entries no other entry beats
BestEntries == {f \in Offered : \A g \in Offered : Overlap(g) <= Overlap(f)}

\* The parenthesized groups of a name, as the places of their parentheses:
\* from a "(" to the first ")" that follows at least one character
RECURSIVE GroupsFrom(_, _)
GroupsFrom(s, i) ==
    IF i > Len(s) THEN {}
    ELSE LET closes == {j \in (i + 2)..Len(s) : s[j] = ")"}
         IN  IF s[i] = "(" /\ closes # {}
             THEN LET j == CHOOSE c \in closes : \A k \in closes : c <= k
                  IN  {<<i, j>>} \cup GroupsFrom(s, j + 1)
             ELSE GroupsFrom(s, i + 1)

\* The places of a name that lie within a parenthesized group
Grouped(s) == {k \in 1..Len(s) : \E g \in GroupsFrom(s, 1) : g[1] <= k /\ k <= g[2]}

\* The whitespace-delimited words of a name, as the places they start and end
WordSpans(s) ==
    {w \in (1..Len(s)) \X (1..Len(s)) :
        /\ w[1] <= w[2]
        /\ \A k \in w[1]..w[2] : s[k] \notin Whitespace
        /\ w[1] = 1 \/ s[w[1] - 1] \in Whitespace
        /\ w[2] = Len(s) \/ s[w[2] + 1] \in Whitespace}

\* The words of a name outside every group are tokens of its canonical form
\* and the words inside a group are not
WordsKept(s) ==
    LET name == Lower(s)
        canonical == Tokens(canonicalize_food_name(s))
    IN  \A w \in WordSpans(name) :
            /\ (\A k \in w[1]..w[2] : k \notin Grouped(name)) =>
                  SubSeq(name, w[1], w[2]) \in canonical
            /\ (\A k \in w[1]..w[2] : k \in Grouped(name)) =>
                  SubSeq(name, w[1], w[2]) \notin canonical

\* C18: for the name given to a lookup and the names of the catalog, which
\* find_food canonicalizes: every word that lies outside every parenthesized
\* group is, lowercased, a token of the canonical name, and no word that lies
\* inside a group is.  The code does not do this.
C18_WordsOutsideParensKept ==
    found # Pending =>
        \A s \in {food_name} \cup {f.name : f \in Offered} : WordsKept(s)

\* C8: for a name whose canonical form is not "random", the values find_food
\* can return are exactly the entries of greatest overlap when that overlap
\* is positive, and None alone when no entry shares a token with the name.
C8_MatchResult ==
    canonicalize_food_name(food_name) # RandomWord =>
        LET expected == IF \E f \in BestEntries : Overlap(f) > 0
                        THEN BestEntries ELSE {None}
        IN  /\ find_food(food_name, catalog) = expected
            /\ found # Pending => found \in expected

\* C8 witness: of two different entries that tie, find_food returned the
\* one that comes later in the catalog
C8_Witness ==
    /\ canonicalize_food_name(food_name) # RandomWord
    /\ Len(catalog) >= 2
    /\ found = catalog[2]
    /\ found # catalog[1]
    /\ Overlap(catalog[1]) = Overlap(catalog[2])

\* C9: for a name whose canonical form is "random" and a catalog that is not
\* empty, find_food never returns None and can return every entry of the
\* catalog, whatever its overlap with the name.
C9_RandomShortcut ==
    (canonicalize_food_name(food_name) = RandomWord /\ catalog # <<>>) =>
        /\ find_food(food_name, catalog) = Offered
        /\ found # Pending => found \in Offered

\* C9 witness: a name that is "random" only once canonicalized returned an
\* entry that shares no token with it, from a catalog holding one that does
C9_Witness ==
    /\ food_name # RandomWord
    /\ canonicalize_food_name(food_name) = RandomWord
    /\ found \in Offered
    /\ Overlap(found) = 0
    /\ \E f \in Offered : Overlap(f) > 0

====
